---- MODULE Spec2Model ----
(***************************************************************************)
(* A model of the appcd dispatcher (packages/appcd-dispatcher): the route  *)
(* table, the dispatch engine with its `next` continuation, nested         *)
(* dispatchers and the Koa middleware adapter, executed on a JavaScript    *)
(* event loop (synchronous call stack, FIFO microtask queue, timers).      *)
(***************************************************************************)
EXTENDS Integers, Sequences, FiniteSets, TLC

\* ------------------------------------------------------------------------
\* Strings are sequences of one-character strings, so that matching and
\* String.prototype.replace act on text and not on opaque atoms.
\* ------------------------------------------------------------------------
S_p    == <<"/", "p">>
S_P    == <<"/", "P">>
S_q    == <<"/", "q">>
S_pq   == <<"/", "p", "/", "q">>
S_a    == <<"/", ":", "a">>
S_ab   == <<"/", ":", "a", "/", ":", "b">>

\* /i flag of the regular expressions path-to-regexp builds (sensitive: false)
Lower(c) == IF c = "P" THEN "p" ELSE IF c = "Q" THEN "q" ELSE c

LowerStr(s) == [k \in 1..Len(s) |-> Lower(s[k])]

\* position of the first "/" of s at or after position k, Len(s)+1 when none
RECURSIVE NextSlash(_, _)
NextSlash(s, k) ==
    IF k > Len(s) THEN Len(s) + 1
    ELSE IF s[k] = "/" THEN k
    ELSE NextSlash(s, k + 1)

\* the segments of a string that starts with "/": "/p/q" is <<"p","q">> (as
\* character sequences), "/p/" is <<"p", "">>
RECURSIVE Segments(_)
Segments(s) ==
    IF s = <<>> THEN <<>>
    ELSE LET e == NextSlash(s, 2)
         IN  <<SubSeq(s, 2, e - 1)>> \o Segments(SubSeq(s, e, Len(s)))

\* pathToRegExp(path, keys, { end }): the tokens of the pattern, one per
\* segment, a ":name" segment being a named capture ([^\/]+?)
Token(seg) ==
    IF Len(seg) >= 2 /\ seg[1] = ":"
    THEN [par |-> TRUE, name |-> SubSeq(seg, 2, Len(seg))]
    ELSE [par |-> FALSE, name |-> seg]

pathToRegExp(path, end) ==
    LET segs == Segments(path)
    IN  [tokens |-> [k \in 1..Len(segs) |-> Token(segs[k])], end |-> end]

Keys(regexp) ==
    LET idx == {k \in 1..Len(regexp.tokens) : regexp.tokens[k].par}
        RECURSIVE Collect(_)
        Collect(k) == IF k > Len(regexp.tokens) THEN <<>>
                      ELSE (IF k \in idx THEN <<regexp.tokens[k].name>> ELSE <<>>)
                           \o Collect(k + 1)
    IN  Collect(1)

NoMatch == [matched |-> FALSE, groups |-> <<>>]

\* str.match(regexp): the captures (m.slice(1)) when the pattern matches.
\* The pattern is anchored at the start; with end it must cover the whole
\* string but for one optional trailing "/", without end it must stop at a
\* segment boundary.
StrMatch(str, regexp) ==
    LET toks == regexp.tokens
        n    == Len(toks)
        segs == IF str # <<>> /\ str[1] = "/" THEN Segments(str) ELSE <<>>
        SegOk(k) == IF toks[k].par THEN segs[k] # <<>>
                    ELSE LowerStr(segs[k]) = LowerStr(toks[k].name)
        lenOk == IF regexp.end
                 THEN \/ Len(segs) = n
                      \/ Len(segs) = n + 1 /\ segs[n + 1] = <<>>
                 ELSE Len(segs) >= n
        idx  == {k \in 1..n : toks[k].par}
        RECURSIVE Caps(_)
        Caps(k) == IF k > n THEN <<>>
                   ELSE (IF k \in idx THEN <<segs[k]>> ELSE <<>>) \o Caps(k + 1)
    IN  IF n >= 1 /\ lenOk /\ \A k \in 1..n : SegOk(k)
        THEN [matched |-> TRUE, groups |-> Caps(1)]
        ELSE NoMatch

\* first position at which pat occurs in s, 0 when it does not
RECURSIVE IndexOf(_, _, _)
IndexOf(s, pat, k) ==
    IF k + Len(pat) - 1 > Len(s) THEN 0
    ELSE IF SubSeq(s, k, k + Len(pat) - 1) = pat THEN k
    ELSE IndexOf(s, pat, k + 1)

\* str.replace(pat, '') with a string pattern: the first occurrence is removed
StrReplace(s, pat) ==
    LET k == IndexOf(s, pat, 1)
    IN  IF k = 0 THEN s
        ELSE SubSeq(s, 1, k - 1) \o SubSeq(s, k + Len(pat), Len(s))


\* ------------------------------------------------------------------------
\* Bounds and inputs
\* ------------------------------------------------------------------------
MaxRoutes == 2        \* registrations over all dispatchers

D1 == "D1"
D2 == "D2"
Disps == {D1, D2}

\* patterns handed to register() and paths handed to call()
Patterns == {S_p, S_a, S_pq}
Paths    == {S_p, S_P, S_q, S_pq}

\* ------------------------------------------------------------------------
\* JavaScript values: undefined, a DispatcherContext (by identity), some
\* other truthy value, a promise (by identity), and error objects
\* ------------------------------------------------------------------------
NOT_FOUND    == 404
BAD_REQUEST  == 400
SERVER_ERROR == 500
OK_STATUS    == 200

Undef        == [t |-> "undef", v |-> 0]
CtxRef(c)    == [t |-> "ctx", v |-> c]
Val(n)       == [t |-> "val", v |-> n]
PromRef(p)   == [t |-> "prom", v |-> p]
DispatcherError(code) == [t |-> "DispatcherError", v |-> code]
PlainError(status)    == [t |-> "Error", v |-> status]
TypeError    == [t |-> "TypeError", v |-> 0]

IsError(x) == x.t \in {"DispatcherError", "Error", "TypeError"}

\* `result || ctx`
OrCtx(result, c) == IF result.t = "undef" THEN CtxRef(c) ELSE result

\* ------------------------------------------------------------------------
\* What a registered handler function does when it is invoked:
\*   nx    how many times it calls next() before it returns
\*   ret   "value": returns out;  "throw": throws out;
\*         "next":  returns what its first next() returned;
\*         "then":  returns next().then(() => out);
\*         "timer": returns a promise of its own, settled later with out
\*   late  how many times it calls next() from a timer, after it returned
\* ------------------------------------------------------------------------
Beh(nx, ret, out, late) == [nx |-> nx, ret |-> ret, out |-> out, late |-> late]

Behaviours ==
    { Beh(0, "value", Undef, 0),
      Beh(0, "value", Val(1), 0),
      Beh(0, "throw", PlainError(NOT_FOUND), 0),
      Beh(0, "throw", DispatcherError(BAD_REQUEST), 0),
      Beh(0, "timer", Undef, 0),
      Beh(0, "timer", PlainError(NOT_FOUND), 0),
      Beh(1, "next", Undef, 0),
      Beh(2, "next", Undef, 0),
      Beh(1, "then", Val(2), 0),
      Beh(1, "timer", Undef, 0),
      Beh(1, "value", Undef, 1),
      Beh(0, "timer", Undef, 2) }

VARIABLES
    routes,   \* Dispatcher.routes of each dispatcher
    behav,    \* the code of each registered handler function, once it has run
    ctxs,     \* the DispatcherContext objects, by identity
    frames,   \* the closures of the call() invocations: path, ctx, index
    proms,    \* the promises: state, value, pending reactions, when settled
    tick,     \* how many promises have been settled
    queue,    \* the microtask queue
    stack,    \* the synchronous call stack: handlers that have not returned
    hs,       \* the handler invocations: the closure of each new Promise
    errs,     \* the errors handlers have raised
    calls,    \* the top-level call() invocations
    koa,      \* the Koa requests served by the middleware
    ws,       \* WebServer: the WebSocket connections, the closures of the message
              \* handler, the frames sent, and the services behind 'dispatch'
    cl        \* Client: the socket, the requests table, the event emitters

vars == <<routes, behav, ctxs, frames, proms, tick, queue, stack, hs, errs, calls, koa,
          ws, cl>>

\* the part of the state the engine's steps read and write, as one value
M == [behav |-> behav, ctxs |-> ctxs, frames |-> frames, proms |-> proms, tick |-> tick,
      queue |-> queue, stack |-> stack, hs |-> hs, errs |-> errs, koa |-> koa]

Load(m) ==
    /\ behav' = m.behav
    /\ ctxs' = m.ctxs
    /\ frames' = m.frames
    /\ proms' = m.proms
    /\ tick' = m.tick
    /\ queue' = m.queue
    /\ stack' = m.stack
    /\ hs' = m.hs
    /\ errs' = m.errs
    /\ koa' = m.koa

\* ------------------------------------------------------------------------
\* Promises
\* ------------------------------------------------------------------------
NewProm(m) ==
    [m EXCEPT !.proms = Append(@, [state |-> "pending", value |-> Undef,
                                    reactions |-> <<>>, at |-> 0])]

LastProm(m) == Len(m.proms)

Reaction(k, a, c, v, d) == [k |-> k, a |-> a, c |-> c, v |-> v, d |-> d]

Job(r, st, val) == [k |-> r.k, a |-> r.a, c |-> r.c, v |-> r.v, d |-> r.d,
                    st |-> st, val |-> val]

\* the promise's resolve or reject function called with a value that is no
\* thenable: a no-op once the promise is settled
Settle(m, p, st, val) ==
    IF m.proms[p].state # "pending" THEN m
    ELSE LET rs == m.proms[p].reactions
         IN  [m EXCEPT !.proms[p] = [state |-> st, value |-> val, reactions |-> <<>>,
                                     at |-> m.tick + 1],
                       !.tick = @ + 1,
                       !.queue = @ \o [j \in 1..Len(rs) |-> Job(rs[j], st, val)]]

\* p.then(callback): the derived promise is the last promise of the result
Then(m, p, r) ==
    LET m1 == NewProm(m)
        rd == [r EXCEPT !.d = LastProm(m1)]
    IN  IF m1.proms[p].state = "pending"
        THEN [m1 EXCEPT !.proms[p].reactions = Append(@, rd)]
        ELSE [m1 EXCEPT !.queue = Append(@, Job(rd, m1.proms[p].state, m1.proms[p].value))]

\* a then-callback returned rv: the derived promise d follows a returned
\* promise (NewPromiseResolveThenableJob) and is fulfilled by anything else
ResolveWith(m, d, rv) ==
    IF rv.t = "prom"
    THEN [m EXCEPT !.queue = Append(@, Job(Reaction("thenable", rv.v, 0, Undef, d),
                                            "fulfilled", Undef))]
    ELSE Settle(m, d, "fulfilled", rv)


\* ------------------------------------------------------------------------
\* Dispatcher.register
\* ------------------------------------------------------------------------
Null == <<"null">>

FnHandler       == [kind |-> "fn", d |-> D1]
DispHandler(d)  == [kind |-> "disp", d |-> d]
BadHandler      == [kind |-> "bad", d |-> D1]

StrArg(s)  == [kind |-> "str", s |-> s, elems |-> <<>>]
BadArg     == [kind |-> "bad", s |-> <<>>, elems |-> <<>>]
SvcArg(s)  == [kind |-> "svc", s |-> s, elems |-> <<>>]
ArrArg(es) == [kind |-> "arr", s |-> <<>>, elems |-> es]

\* the route object pushed by register (lines 70-80)
Route(path, handler) ==
    LET isDisp == handler.kind = "disp"
        regexp == pathToRegExp(path, ~isDisp)
    IN  [path    |-> path,
         prefix  |-> IF isDisp THEN path ELSE Null,
         handler |-> handler,
         keys    |-> Keys(regexp),
         regexp  |-> regexp]

\* register(path, handler) on a route table: the table afterwards and
\* whether the call threw
RECURSIVE register(_, _, _)
register(rs, path, handler) ==
    IF path.kind = "arr"
    THEN IF path.elems = <<>> THEN [routes |-> rs, thrown |-> FALSE]
         ELSE LET r == register(rs, Head(path.elems), handler)
              IN  IF r.thrown THEN r
                  ELSE register(r.routes, ArrArg(Tail(path.elems)), handler)
    ELSE LET h  == IF path.kind = "svc" THEN FnHandler ELSE handler
             pa == IF path.kind = "svc" THEN StrArg(path.s) ELSE path
         IN  IF pa.kind # "str" THEN [routes |-> rs, thrown |-> TRUE]
             ELSE IF h.kind \in {"fn", "disp"}
                  THEN [routes |-> Append(rs, Route(pa.s, h)), thrown |-> FALSE]
                  ELSE [routes |-> rs, thrown |-> TRUE]

\* ------------------------------------------------------------------------
\* Dispatcher.call: the context, the route walk, the handler invocation
\* ------------------------------------------------------------------------
Absent == [present |-> FALSE, map |-> {}]

\* (mutant) the params of the route matched before are kept and merged into
KeepParams(old) == old

\* delete ctx.params (line 146)
DeleteParams(old) == Absent

\* ctx.params || (ctx.params = {}); ctx.params[name] = param
SetParam(ps, name, param) ==
    [present |-> TRUE,
     map |-> {pr \in ps.map : pr[1] # name} \cup {<<name, param>>}]

\* params.forEach((param, i) => { if (route.keys[i]) ... }) (lines 147-153)
RECURSIVE FillParams(_, _, _, _)
FillParams(ps, keys, groups, k) ==
    IF k > Len(groups) THEN ps
    ELSE FillParams(IF k <= Len(keys) THEN SetParam(ps, keys[k], groups[k]) ELSE ps,
                    keys, groups, k + 1)

NewContext == [path |-> <<>>, params |-> Absent, response |-> <<>>,
               status |-> OK_STATUS]

\* the index guard of dispatch (line 122)
AlreadyDispatched(i, index) == i <= index

\* (mutant) a route is skipped after a miss
NextRouteSkips(i) == i + 2

\* the route tried after route i did not match (line 140)
NextRoute(i) == i + 1

\* (mutant) the end of the table is reported as a server error
ServerErrorInstead == DispatcherError(SERVER_ERROR)

\* the error of an exhausted route table (line 133)
RouteNotFound == DispatcherError(NOT_FOUND)

\* (mutant) the nested dispatcher is called with the whole path
KeepPrefix(path, prefix) == path

\* the path a nested dispatcher is called with (line 158)
StripPrefix(path, prefix) == StrReplace(path, prefix)

\* dispatch(i) of call frame f up to the point where it throws, returns, calls
\* a nested dispatcher or calls a handler (lines 121-153); indices are
\* those of the code, the first route is route 0
RECURSIVE dispatch(_, _, _)
dispatch(m, f, i) ==
    LET fr == m.frames[f]
    IN  IF AlreadyDispatched(i, fr.index) THEN [m |-> m, kind |-> "undef", i |-> i]
        ELSE LET m1 == [m EXCEPT !.frames[f].index = i]
                 rs == routes[fr.disp]
             IN  IF i >= Len(rs) THEN [m |-> m1, kind |-> "throw", i |-> i]
                 ELSE LET route == rs[i + 1]
                          mt == StrMatch(m1.ctxs[fr.ctx].path, route.regexp)
                      IN  IF ~mt.matched THEN dispatch(m1, f, NextRoute(i))
                          ELSE [m |-> [m1 EXCEPT !.ctxs[fr.ctx].params =
                                          FillParams(DeleteParams(@), route.keys, mt.groups, 1)],
                                kind |-> IF route.handler.kind = "disp" THEN "descend"
                                         ELSE "invoke",
                                i |-> i]

\* call(path, ctx) once the context is chosen (lines 115-117, 191-192): the
\* promise returned is the last promise of the result
CallFn(m, d, path, c, call, parent, via) ==
    LET m1 == NewProm([m EXCEPT !.ctxs[c].path = path])
        f  == Len(m.frames) + 1
    IN  [m1 EXCEPT !.frames = Append(@, [disp |-> d, path |-> path, ctx |-> c,
                                         index |-> -1, call |-> call,
                                         parent |-> parent, via |-> via,
                                         prom |-> LastProm(m1)]),
                   !.queue = Append(@, Job(Reaction("start", f, c, Undef, LastProm(m1)),
                                           "fulfilled", Undef))]

Activation(kind, inv, a) == [kind |-> kind, inv |-> inv, a |-> a, k |-> 0, nret |-> Undef]

Push(m, act) == [m EXCEPT !.stack = <<act>> \o @]
Pop(m)       == [m EXCEPT !.stack = Tail(@)]

\* new Promise((resolve, reject) => { ... route.handler(ctx, next) ... }): the
\* handler of route i starts to run (lines 161-166); it writes to ctx.response
Invoke(m, f, i, b) ==
    LET fr == m.frames[f]
        m1 == NewProm(m)
        h  == [call |-> fr.call, f |-> f, i |-> i, disp |-> fr.disp, ctx |-> fr.ctx,
               H |-> LastProm(m1), fired |-> FALSE, b |-> b,
               nextCalls |-> 0, advances |-> 0, lateDone |-> 0,
               down |-> Undef, R |-> 0, returned |-> FALSE,
               path |-> m.ctxs[fr.ctx].path, params |-> m.ctxs[fr.ctx].params]
        inv == Len(m.hs) + 1
    IN  Push([m1 EXCEPT !.hs = Append(@, h),
                        !.behav[<<fr.disp, i>>] = {b},
                        !.ctxs[fr.ctx].response = Append(@, inv)],
             Activation("handler", inv, 0))
\* dispatch(i + 1).then(result => result || ctx).catch(reject) (lines
\* 176-178): the promise next() returns is the last promise of the result
NextChain(m, inv, down) ==
    LET h  == m.hs[inv]
        m1 == Then([m EXCEPT !.hs[inv].down = down], down.v,
                   Reaction("orCtx", 0, h.ctx, Undef, 0))
    IN  Then(m1, LastProm(m1), Reaction("catchReject", h.H, h.ctx, Undef, 0))

LogError(m, inv, e, how) ==
    [m EXCEPT !.errs = Append(@, [inv |-> inv, err |-> e, how |-> how,
                                  call |-> m.hs[inv].call,
                                  pending |-> m.proms[calls[m.hs[inv].call].prom].state
                                              = "pending"])]

\* dispatch(...) has returned rv, or has thrown rv, to whatever called it: the
\* start of the chain (line 192), or next() inside a handler that is still
\* running, or next() called from a timer
RECURSIVE Return(_, _, _)
Return(m, rv, thrown) ==
    LET top == Head(m.stack)
    IN  CASE top.kind = "start" ->
               IF thrown THEN Settle(Pop(m), top.a, "rejected", rv)
               ELSE ResolveWith(Pop(m), top.a, rv)
          [] top.kind = "late" ->
               IF thrown \/ rv.t # "prom"
               THEN Pop(LogError(m, top.inv, IF thrown THEN rv ELSE TypeError, "uncaught"))
               ELSE Pop(NextChain(m, top.inv, rv))
          [] top.kind = "handler" ->
               IF thrown \/ rv.t # "prom"
               THEN \* next() throws inside the handler, which does not catch it:
                    \* the executor of new Promise rejects the handler's promise
                    LET H == m.hs[top.inv].H
                    IN  Return(Settle(Pop(m), H, "rejected", IF thrown THEN rv ELSE TypeError),
                               PromRef(H), FALSE)
               ELSE LET m1 == NextChain(m, top.inv, rv)
                    IN  [m1 EXCEPT !.stack[1].k = @ + 1,
                                   !.stack[1].nret = IF top.k = 0 THEN PromRef(LastProm(m1))
                                                     ELSE @]

\* (mutant) the walk goes on with the next route of the parent after it has
\* called the nested dispatcher
RECURSIVE DescentFallsThrough(_, _, _, _)
DescentFallsThrough(m, f, i, b) ==
    LET r  == dispatch(m, f, i)
        fr == r.m.frames[f]
    IN  CASE r.kind = "undef"   -> Return(r.m, Undef, FALSE)
          [] r.kind = "throw"   -> Return(r.m, RouteNotFound, TRUE)
          [] r.kind = "descend" ->
               LET route == routes[fr.disp][r.i + 1]
                   m1 == CallFn(r.m, route.handler.d, StripPrefix(fr.path, route.prefix),
                                fr.ctx, fr.call, f, r.i)
               IN  DescentFallsThrough(m1, f, r.i + 1, b)
          [] r.kind = "invoke"  -> Invoke(r.m, f, r.i, b)

\* what follows the route walk of dispatch(i) (lines 130-134, 155-166); b is
\* the code of the handler, used when a handler function is reached
Dispatched(m, f, i, b) ==
    LET r  == dispatch(m, f, i)
        fr == r.m.frames[f]
    IN  CASE r.kind = "undef"   -> Return(r.m, Undef, FALSE)
          [] r.kind = "throw"   -> Return(r.m, RouteNotFound, TRUE)
          [] r.kind = "descend" ->
               LET route == routes[fr.disp][r.i + 1]
                   m1 == CallFn(r.m, route.handler.d, StripPrefix(fr.path, route.prefix),
                                fr.ctx, fr.call, f, r.i)
               IN  Return(m1, PromRef(LastProm(m1)), FALSE)
          [] r.kind = "invoke"  -> Invoke(r.m, f, r.i, b)

NoBehaviour == Beh(0, "value", Undef, 0)

\* the handler functions dispatch(i) may reach: a function that has run
\* before runs the same code again
DispatchChoices(m, f, i) ==
    LET r == dispatch(m, f, i)
        key == <<m.frames[f].disp, r.i>>
    IN  IF r.kind # "invoke" THEN {NoBehaviour}
        ELSE IF m.behav[key] = {} THEN Behaviours
        ELSE m.behav[key]

\* (mutant) next has no guard against a second call
NextNeverFired(h) == FALSE

\* the `fired` guard of next (lines 169-172)
NextFired(h) == h.fired

\* next() returned undefined without dispatching
NextNoop(m) ==
    IF Head(m.stack).kind = "handler" THEN [m EXCEPT !.stack[1].k = @ + 1]
    ELSE Pop(m)

\* the body of next (lines 166-179), called by the activation on top of the
\* stack for handler invocation inv
CallNext(m, inv, b) ==
    LET h  == m.hs[inv]
        m0 == [m EXCEPT !.hs[inv].nextCalls = @ + 1]
    IN  IF NextFired(h) THEN NextNoop(m0)
        ELSE Dispatched([m0 EXCEPT !.hs[inv].fired = TRUE, !.hs[inv].advances = @ + 1],
                        h.f, h.i + 1, b)

NextChoices(m, inv) ==
    IF NextFired(m.hs[inv]) THEN {NoBehaviour}
    ELSE DispatchChoices(m, m.hs[inv].f, m.hs[inv].i + 1)

\* the handler has returned `result` (lines 181-186)
AwaitResult(m, inv, result) ==
    LET h == m.hs[inv]
    IN  IF result.t = "prom"
        THEN LET m1 == Then(m, result.v, Reaction("resolveOrCtx", h.H, h.ctx, Undef, 0))
             IN  Then(m1, LastProm(m1), Reaction("catchReject", h.H, h.ctx, Undef, 0))
        ELSE Settle(m, h.H, "fulfilled", OrCtx(result, h.ctx))

\* the handler on top of the stack returns or throws
ReturnFromHandler(m) ==
    LET top == Head(m.stack)
        inv == top.inv
        h   == m.hs[inv]
        m0  == Pop([m EXCEPT !.hs[inv].returned = TRUE])
        m1  == CASE h.b.ret = "value" -> AwaitResult(m0, inv, h.b.out)
                 [] h.b.ret = "throw" ->
                      Settle(LogError(m0, inv, h.b.out, "thrown"), h.H, "rejected", h.b.out)
                 [] h.b.ret = "next"  -> AwaitResult(m0, inv, top.nret)
                 [] h.b.ret = "then"  ->
                      IF top.nret.t = "prom"
                      THEN LET m2 == Then(m0, top.nret.v,
                                          Reaction("const", 0, h.ctx, h.b.out, 0))
                           IN  AwaitResult(m2, inv, PromRef(LastProm(m2)))
                      ELSE Settle(m0, h.H, "rejected", TypeError)
                 [] h.b.ret = "timer" ->
                      LET m2 == NewProm(m0)
                      IN  AwaitResult([m2 EXCEPT !.hs[inv].R = LastProm(m2)], inv,
                                      PromRef(LastProm(m2)))
    IN  Return(m1, PromRef(h.H), FALSE)
\* ------------------------------------------------------------------------
\* Dispatcher.callback: the Koa middleware (lines 217-252)
\* ------------------------------------------------------------------------
Methods == {"HEAD", "GET"}

NoBody == [kind |-> "unset", c |-> 0, e |-> Undef]

\* ctx.body = result.response
ResponseOf(m, result) ==
    IF result.t = "ctx" THEN [kind |-> "response", c |-> result.v, e |-> Undef]
    ELSE [kind |-> "undefined", c |-> 0, e |-> Undef]

\* ctx.status = result.status
StatusOf(m, result) ==
    IF result.t = "ctx" THEN Val(m.ctxs[result.v].status) ELSE Undef

\* err.toString()
ErrToString(err) == [kind |-> "string", c |-> 0, e |-> err]

\* (mutant) the class of the error is not looked at
AnyErrorIsDispatcherError(err) == TRUE

\* err instanceof DispatcherError
IsDispatcherError(err) == err.t = "DispatcherError"

\* (mutant) the status of any error is copied
StatusOfAnyError(err) == err.v

\* the status the catch callback sets (lines 237-244)
ErrorStatus(err) == IF IsDispatcherError(err) THEN err.v ELSE SERVER_ERROR

\* the catch callback passes the error to the next middleware (line 238)
FallsThrough(err) == IsDispatcherError(err) /\ err.v = NOT_FOUND

\* .then(result => { ctx.status = ...; ctx.body = ... }) (lines 232-235)
HttpThen(m, j) ==
    IF j.st = "fulfilled"
    THEN Settle([m EXCEPT !.koa[j.a].status = StatusOf(m, j.val),
                          !.koa[j.a].body = ResponseOf(m, j.val)],
                j.d, "fulfilled", Undef)
    ELSE Settle(m, j.d, "rejected", j.val)

\* .catch(err => { ... }) (lines 236-251); the next middleware and
\* Promise.resolve() both hand back a promise that is already fulfilled
HttpCatch(m, j) ==
    IF j.st = "fulfilled" THEN Settle(m, j.d, "fulfilled", j.val)
    ELSE LET m1 == IF FallsThrough(j.val)
                   THEN [m EXCEPT !.koa[j.a].nextCalls = @ + 1]
                   ELSE [m EXCEPT !.koa[j.a].status = Val(ErrorStatus(j.val)),
                                  !.koa[j.a].body = ErrToString(j.val)]
             m2 == NewProm(m1)
         IN  ResolveWith(Settle(m2, LastProm(m2), "fulfilled", Undef),
                         j.d, PromRef(LastProm(m2)))

\* ------------------------------------------------------------------------
\* Promise reaction jobs
\* ------------------------------------------------------------------------
RunJob(m, j) ==
    CASE j.k = "orCtx" ->          \* result => result || ctx
           IF j.st = "fulfilled" THEN Settle(m, j.d, "fulfilled", OrCtx(j.val, j.c))
           ELSE Settle(m, j.d, "rejected", j.val)
      [] j.k = "catchReject" ->    \* .catch(reject)
           IF j.st = "fulfilled" THEN Settle(m, j.d, "fulfilled", j.val)
           ELSE Settle(Settle(m, j.a, "rejected", j.val), j.d, "fulfilled", Undef)
      [] j.k = "resolveOrCtx" ->   \* result => resolve(result || ctx)
           IF j.st = "fulfilled"
           THEN Settle(Settle(m, j.a, "fulfilled", OrCtx(j.val, j.c)), j.d, "fulfilled", Undef)
           ELSE Settle(m, j.d, "rejected", j.val)
      [] j.k = "const" ->          \* () => out
           IF j.st = "fulfilled" THEN Settle(m, j.d, "fulfilled", j.v)
           ELSE Settle(m, j.d, "rejected", j.val)
      [] j.k = "thenable" ->       \* NewPromiseResolveThenableJob
           Then(m, j.a, Reaction("settle", j.d, 0, Undef, 0))
      [] j.k = "settle" ->         \* the resolving functions of a following promise
           Settle(Settle(m, j.a, j.st, j.val), j.d, "fulfilled", Undef)
      [] j.k = "httpThen" -> HttpThen(m, j)
      [] j.k = "httpCatch" -> HttpCatch(m, j)

\* ------------------------------------------------------------------------
\* The event loop
\* ------------------------------------------------------------------------
PendingTimer(inv) ==
    /\ hs[inv].R # 0
    /\ proms[hs[inv].R].state = "pending"

PendingLate(inv) ==
    /\ hs[inv].returned
    /\ hs[inv].lateDone < hs[inv].b.late

\* nothing left to run: no handler on the stack, no microtask
Idle == stack = <<>> /\ queue = <<>>

Quiescent ==
    /\ Idle
    /\ \A inv \in 1..Len(hs) : ~PendingTimer(inv) /\ ~PendingLate(inv)

RegisterArgs ==
    {StrArg(s) : s \in Patterns}
    \cup {BadArg, SvcArg(S_p), ArrArg(<<StrArg(S_p), StrArg(S_a)>>),
          ArrArg(<<StrArg(S_pq), BadArg>>)}

Handlers == {FnHandler, DispHandler(D2), BadHandler}

RouteCount == Len(routes[D1]) + Len(routes[D2])

\* d.register(path, handler); only D1 mounts a dispatcher
Register(d, path, handler) ==
    /\ calls = <<>>
    /\ koa = <<>>
    /\ handler.kind = "disp" => d = D1
    /\ LET r == register(routes[d], path, handler)
       IN  /\ RouteCount - Len(routes[d]) + Len(r.routes) <= MaxRoutes
           /\ routes' = [routes EXCEPT ![d] = r.routes]
    /\ UNCHANGED <<behav, ctxs, frames, proms, tick, queue, stack, hs, errs, calls, koa,
                   ws, cl>>

\* d.call(path, payload) from outside; payload is a plain object, or the
\* context c of an earlier call
Call(d, path, c) ==
    /\ Quiescent
    /\ c \in 1..(Len(ctxs) + 1)
    /\ LET m0 == IF c > Len(ctxs) THEN [M EXCEPT !.ctxs = Append(@, NewContext)] ELSE M
           m1 == CallFn(m0, d, path, c, Len(calls) + 1, 0, 0)
       IN  /\ Load(m1)
           /\ calls' = Append(calls, [disp |-> d, path |-> path, ctx |-> c,
                                      reused |-> c <= Len(ctxs),
                                      prom |-> LastProm(m1), frame |-> Len(m1.frames),
                                      http |-> 0, sched |-> <<>>])
    /\ UNCHANGED <<routes, ws, cl>>

\* the middleware serves a request: callback()(ctx, next)
HttpRequest(method, url) ==
    /\ koa = <<>>
    /\ IF method = "HEAD"
       THEN /\ koa' = Append(koa, [method |-> method, url |-> url, status |-> Undef,
                                   body |-> NoBody, nextCalls |-> 1, call |-> 0,
                                   ret |-> 0])
            /\ UNCHANGED <<routes, behav, ctxs, frames, proms, tick, queue, stack, hs, errs,
                           calls, ws, cl>>
       ELSE LET c  == Len(ctxs) + 1
                k  == Len(koa) + 1
                m0 == [M EXCEPT !.ctxs = Append(@, NewContext)]
                m1 == CallFn(m0, D1, url, c, Len(calls) + 1, 0, 0)
                P  == LastProm(m1)
                m2 == Then(m1, P, Reaction("httpThen", k, c, Undef, 0))
                m3 == Then(m2, LastProm(m2), Reaction("httpCatch", k, c, Undef, 0))
            IN  /\ Load([m3 EXCEPT !.koa = Append(@, [method |-> method, url |-> url,
                                                      status |-> Undef, body |-> NoBody,
                                                      nextCalls |-> 0,
                                                      call |-> Len(calls) + 1,
                                                      ret |-> LastProm(m3)])])
                /\ calls' = Append(calls, [disp |-> D1, path |-> url, ctx |-> c,
                                           reused |-> FALSE, prom |-> P,
                                           frame |-> Len(m1.frames), http |-> k,
                                           sched |-> <<>>])
                /\ UNCHANGED <<routes, ws, cl>>

\* the microtask at the head of the queue runs () => dispatch(0)
StartDispatch ==
    /\ stack = <<>>
    /\ queue # <<>>
    /\ Head(queue).k = "start"
    /\ LET j  == Head(queue)
           m0 == Push([M EXCEPT !.queue = Tail(@)], Activation("start", 0, j.d))
       IN  \E b \in DispatchChoices(m0, j.a, 0) : Load(Dispatched(m0, j.a, 0, b))
    /\ UNCHANGED <<routes, calls, ws, cl>>

\* the promise reactions at the head of the queue run, one after the other,
\* until the queue is empty or its head is the start of a call
RECURSIVE Drain(_)
Drain(m) ==
    IF m.queue = <<>> \/ Head(m.queue).k = "start" THEN m
    ELSE Drain(RunJob([m EXCEPT !.queue = Tail(@)], Head(m.queue)))

RunMicrotasks ==
    /\ stack = <<>>
    /\ queue # <<>>
    /\ Head(queue).k # "start"
    /\ Load(Drain(M))
    /\ UNCHANGED <<routes, calls, ws, cl>>

\* the running handler calls next()
HandlerCallNext ==
    /\ stack # <<>>
    /\ Head(stack).kind = "handler"
    /\ Head(stack).k < hs[Head(stack).inv].b.nx
    /\ \E b \in NextChoices(M, Head(stack).inv) : Load(CallNext(M, Head(stack).inv, b))
    /\ UNCHANGED <<routes, calls, ws, cl>>

\* the running handler returns or throws
HandlerReturn ==
    /\ stack # <<>>
    /\ Head(stack).kind = "handler"
    /\ Head(stack).k = hs[Head(stack).inv].b.nx
    /\ Load(ReturnFromHandler(M))
    /\ UNCHANGED <<routes, calls, ws, cl>>

\* a handler that returned calls next() from a timer
LateNext(inv) ==
    /\ Idle
    /\ PendingLate(inv)
    /\ LET m0 == Push([M EXCEPT !.hs[inv].lateDone = @ + 1], Activation("late", inv, 0))
       IN  \E b \in NextChoices(m0, inv) : Load(CallNext(m0, inv, b))
    /\ calls' = [calls EXCEPT ![hs[inv].call].sched =
                    Append(@, <<hs[inv].disp, hs[inv].i, "next">>)]
    /\ UNCHANGED <<routes, ws, cl>>

\* the promise a handler returned is settled by the handler's own timer
TimerSettle(inv) ==
    /\ Idle
    /\ PendingTimer(inv)
    /\ LET out == hs[inv].b.out
       IN  IF IsError(out)
           THEN Load(Settle(LogError(M, inv, out, "rejected"), hs[inv].R, "rejected", out))
           ELSE Load(Settle(M, hs[inv].R, "fulfilled", out))
    /\ calls' = [calls EXCEPT ![hs[inv].call].sched =
                    Append(@, <<hs[inv].disp, hs[inv].i, "settle">>)]
    /\ UNCHANGED <<routes, ws, cl>>

\* ------------------------------------------------------------------------
\* WebServer.listen: the WebSocket adapter (part_003, lines 53-79), and the
\* services that listen to its 'dispatch' event
\* ------------------------------------------------------------------------
MaxConns    == 2     \* connections
MaxFrames   == 2     \* inbound frames over all connections
MaxResponds == 2     \* invocations of one responder

\* a decoded value: an object with the fields of a request, "" and 0 standing
\* for a missing field, or a value that is no object
Obj(version, path, url, id, type, sid) ==
    [k |-> "obj", version |-> version, path |-> path, url |-> url, id |-> id,
     type |-> type, sid |-> sid]

NotObject == [k |-> "other", version |-> "", path |-> "", url |-> "", id |-> "",
              type |-> "", sid |-> 0]

\* an inbound frame: text or binary, its bytes being JSON text, MessagePack
\* or neither, and the value the bytes encode
Frame(enc, fmt, val) == [enc |-> enc, fmt |-> fmt, val |-> val]

\* the frame Client.request sends (part_001, lines 178-184)
ClientFrame(id) == Frame("text", "json", Obj("1.0", "/p", "", id, "call", 0))

WsFrames ==
    {ClientFrame("a"),
     Frame("text", "json", Obj("1.0", "", "/p", "b", "call", 0)),
     Frame("text", "garbage", NotObject),
     Frame("binary", "msgpack", Obj("1.0", "/p", "/p", "a", "call", 0)),
     Frame("binary", "json", Obj("1.0", "/p", "/p", "a", "call", 0))}

\* JSON.parse(message) (line 58): a Buffer is converted to a string first;
\* bytes that are no JSON text make it throw
JsonParse(message) ==
    IF message.fmt = "json" THEN [thrown |-> FALSE, val |-> message.val]
    ELSE [thrown |-> TRUE, val |-> NotObject]

\* req && typeof req === 'object' && req.version && req.url && req.id (line 59)
Accepted(req) == req.k = "obj" /\ req.version # "" /\ req.url # "" /\ req.id # ""

WsInit == [conns |-> <<>>, msgs |-> <<>>, sent |-> <<>>, subs |-> <<>>,
           timer |-> 0, intervals |-> {}, nextTimer |-> 1]

\* TimeService.onSubscribe (part_002, lines 9-16): setInterval, kept in this.timer
onSubscribe(w) ==
    [w EXCEPT !.timer = w.nextTimer,
              !.intervals = @ \cup {w.nextTimer},
              !.nextTimer = @ + 1]

\* TimeService.onUnsubscribe (part_002, lines 18-21): clearInterval(this.timer)
onUnsubscribe(w) == [w EXCEPT !.intervals = @ \ {w.timer}]

\* ServiceDispatcher, subscribe: a new subscription of the connection, with
\* a fresh sid, and the service's onSubscribe hook
ServiceSubscribe(w, m) ==
    LET sub == [conn |-> w.msgs[m].conn, sid |-> Len(w.subs) + 1, active |-> TRUE,
                subscribed |-> 1, unsubscribed |-> 0]
    IN  onSubscribe([w EXCEPT !.subs = Append(@, sub)])

\* ServiceDispatcher, teardown of subscription s: the service's onUnsubscribe
\* hook runs and the record is retired
ServiceTeardown(w, s) ==
    IF ~w.subs[s].active THEN w
    ELSE onUnsubscribe([w EXCEPT !.subs[s].active = FALSE,
                                 !.subs[s].unsubscribed = @ + 1])

\* ServiceDispatcher, unsubscribe: looks the sid up among the subscriptions
\* of the connection
ServiceUnsubscribe(w, m) ==
    LET req == w.msgs[m].req
        found == {s \in 1..Len(w.subs) :
                    w.subs[s].sid = req.sid /\ w.subs[s].conn = w.msgs[m].conn}
    IN  IF found = {} THEN w ELSE ServiceTeardown(w, CHOOSE s \in found : TRUE)

\* the listener of 'dispatch': a service demultiplexes by the type of the
\* request; a call changes no state of the service
OnDispatch(w, m) ==
    LET type == w.msgs[m].req.type
    IN  CASE type = "subscribe"   -> ServiceSubscribe(w, m)
          [] type = "unsubscribe" -> ServiceUnsubscribe(w, m)
          [] OTHER                -> w

\* ws.on('message', message => { ... }) (lines 54-78): the closure of one
\* inbound frame, with its `done` flag, the request it parsed and its close
\* listener
OnMessage(w, c, message) ==
    LET parsed == JsonParse(message)
        emit   == ~parsed.thrown /\ Accepted(parsed.val)
        msg    == [conn |-> c, frame |-> message, done |-> FALSE, req |-> parsed.val,
                   emitted |-> IF emit THEN 1 ELSE 0, responds |-> 0,
                   closeListener |-> TRUE]
        w1     == [w EXCEPT !.msgs = Append(@, msg)]
    IN  IF emit THEN OnDispatch(w1, Len(w1.msgs)) ELSE w1

\* (mutant) the responder sends every time it is invoked
NeverDone(msg) == FALSE

\* if (!done) (line 61)
ResponderDone(msg) == msg.done

\* the id of the frame the responder of message m sends (line 64)
ResponderId(w, m) == w.msgs[m].req.id

\* the responder handed to the listeners of 'dispatch' (lines 60-68):
\* ws.send(JSON.stringify({ id: req.id, data: payload }))
Responder(w, m) ==
    LET msg == w.msgs[m]
        w0  == [w EXCEPT !.msgs[m].responds = @ + 1]
    IN  IF ResponderDone(msg) THEN w0
        ELSE [w0 EXCEPT !.msgs[m].done = TRUE,
                        !.sent = Append(@, [conn |-> msg.conn, id |-> ResponderId(w, m),
                                            enc |-> "text", by |-> m,
                                            open |-> w.conns[msg.conn].open])]

\* (mutant) the close listener leaves the flag alone
CloseIgnored(msg) == msg

\* ws.on('close', () => { done = true; }) (lines 74-77)
CloseListener(msg) == [msg EXCEPT !.done = TRUE]

\* the 'close' event of connection c: every close listener of c runs
OnClose(w, c) ==
    [w EXCEPT !.conns[c].open = FALSE,
              !.msgs = [m \in 1..Len(w.msgs) |->
                          IF w.msgs[m].conn = c /\ w.msgs[m].closeListener
                          THEN CloseListener(w.msgs[m]) ELSE w.msgs[m]]]

dispatcherVars == <<routes, behav, ctxs, frames, proms, tick, queue, stack, hs, errs,
                    calls, koa>>

\* this.server.on('connection', ws => ...) (line 53)
WsConnect ==
    /\ Len(ws.conns) < MaxConns
    /\ ws' = [ws EXCEPT !.conns = Append(@, [open |-> TRUE])]
    /\ UNCHANGED <<dispatcherVars, cl>>

\* a frame arrives on the open connection c
WsMessage(c, message) ==
    /\ c \in 1..Len(ws.conns)
    /\ ws.conns[c].open
    /\ Len(ws.msgs) < MaxFrames
    /\ ws' = OnMessage(ws, c, message)
    /\ UNCHANGED <<dispatcherVars, cl>>

\* a listener of 'dispatch' invokes the responder of message m, at any time
\* after the event
WsRespond(m) ==
    /\ m \in 1..Len(ws.msgs)
    /\ ws.msgs[m].emitted = 1
    /\ ws.msgs[m].responds < MaxResponds
    /\ ws' = Responder(ws, m)
    /\ UNCHANGED <<dispatcherVars, cl>>

\* the client hangs up
WsClose(c) ==
    /\ c \in 1..Len(ws.conns)
    /\ ws.conns[c].open
    /\ ws' = OnClose(ws, c)
    /\ UNCHANGED <<dispatcherVars, cl>>

\* ------------------------------------------------------------------------
\* Client (part_001): connect, request, disconnect and the socket's events
\* ------------------------------------------------------------------------
MaxRequests == 3     \* calls of client.request
MaxSockets  == 2     \* sockets the client creates

\* this.socket = null; this.requests = {} (lines 36, 43); an uncaught
\* exception ends the process
ClInit == [socket |-> 0, socks |-> <<>>, reqs |-> <<>>, requests |-> {},
           crashed |-> FALSE]

\* delete this.requests[id] (lines 188, 191)
DeleteRequest(c, r) == [c EXCEPT !.requests = @ \ {r}]

\* the state client.socket is in: "null" when there is no socket
SocketState(c) == IF c.socket = 0 THEN "null" ELSE c.socks[c.socket].state

\* the 'connected' listener of request r (lines 159-185): the callback is
\* stored, then client.socket.send is called with the request, in whatever
\* state the socket is; send throws unless the socket is open, and a null
\* socket has no send
OnConnected(c, r) ==
    LET c1 == [c EXCEPT !.requests = @ \cup {r}, !.reqs[r].sock = c.socket,
                        !.reqs[r].sendOn = SocketState(c)]
    IN  IF c.socket # 0 /\ c.socks[c.socket].state = "open"
        THEN [c |-> [c1 EXCEPT !.reqs[r].sent = TRUE], thrown |-> FALSE]
        ELSE [c |-> c1, thrown |-> TRUE]

\* the 'close' listener of request r (lines 187-189)
OnRequestClose(c, r) == DeleteRequest(c, r)

\* the 'error' listener of request r (lines 190-193)
OnRequestError(c, r) == [DeleteRequest(c, r) EXCEPT !.reqs[r].errors = @ + 1]

\* this.socket = new WebSocket(...) with its listeners wired to the emitter
\* of the connect() call of request r (lines 99-131)
CreateSocket(c, r) ==
    LET c1 == [c EXCEPT !.socks = Append(@, [state |-> "connecting", wired |-> r,
                                             errored |-> FALSE])]
    IN  [c1 EXCEPT !.socket = Len(c1.socks), !.reqs[r].pc = "wired"]

\* client.request(...) (lines 150-197): the work is deferred by setImmediate
ClRequest ==
    /\ ~cl.crashed
    /\ Len(cl.reqs) < MaxRequests
    /\ cl' = [cl EXCEPT !.reqs = Append(@, [pc |-> "request", sock |-> 0, sent |-> FALSE,
                                            sendOn |-> "", errors |-> 0,
                                            responses |-> 0])]
    /\ UNCHANGED <<dispatcherVars, ws>>

\* the setImmediate callback of request (lines 155-194): the id is drawn,
\* connect() returns a new emitter and the listeners are put on it;
\* connect defers its work by setImmediate
ClRequestImmediate(r) ==
    /\ ~cl.crashed
    /\ r \in 1..Len(cl.reqs)
    /\ cl.reqs[r].pc = "request"
    /\ cl' = [cl EXCEPT !.reqs[r].pc = "connect"]
    /\ UNCHANGED <<dispatcherVars, ws>>

\* the setImmediate callback of connect (lines 83-135): with a socket at
\* hand 'connected' is emitted at once, and what the listener throws is
\* caught and emitted as 'error'; otherwise the socket is created, at once
\* when APPCD_LOCALE is set and after `await locale()` when it is not
ClConnectImmediate(r, awaited) ==
    /\ ~cl.crashed
    /\ r \in 1..Len(cl.reqs)
    /\ cl.reqs[r].pc = "connect"
    /\ IF cl.socket # 0
       THEN LET res == OnConnected(cl, r)
                c1  == IF res.thrown THEN OnRequestError(res.c, r) ELSE res.c
            IN  cl' = [c1 EXCEPT !.reqs[r].pc = "done"]
       ELSE IF awaited THEN cl' = [cl EXCEPT !.reqs[r].pc = "locale"]
            ELSE /\ Len(cl.socks) < MaxSockets
                 /\ cl' = CreateSocket(cl, r)
    /\ UNCHANGED <<dispatcherVars, ws>>

\* connect resumes after `await locale()` (lines 94-131)
ClLocaleResolved(r) ==
    /\ ~cl.crashed
    /\ r \in 1..Len(cl.reqs)
    /\ cl.reqs[r].pc = "locale"
    /\ Len(cl.socks) < MaxSockets
    /\ cl' = CreateSocket(cl, r)
    /\ UNCHANGED <<dispatcherVars, ws>>

\* socket.on('open', () => emitter.emit('connected', this)) (line 125); an
\* exception of the listener is caught by nobody
SocketOpen(s) ==
    /\ ~cl.crashed
    /\ s \in 1..Len(cl.socks)
    /\ cl.socks[s].state = "connecting"
    /\ LET c1  == [cl EXCEPT !.socks[s].state = "open"]
           res == OnConnected(c1, c1.socks[s].wired)
       IN  cl' = IF res.thrown THEN [res.c EXCEPT !.crashed = TRUE] ELSE res.c
    /\ UNCHANGED <<dispatcherVars, ws>>

\* socket.on('message', ...) (lines 103-122) with the response to request r,
\* which was sent on socket s: the stored callback is called
SocketMessage(s, r) ==
    /\ ~cl.crashed
    /\ s \in 1..Len(cl.socks)
    /\ r \in 1..Len(cl.reqs)
    /\ cl.socks[s].state = "open"
    /\ cl.reqs[r].sent
    /\ cl.reqs[r].sock = s
    /\ cl.reqs[r].responses = 0
    /\ r \in cl.requests
    /\ cl' = [cl EXCEPT !.reqs[r].responses = 1]
    /\ UNCHANGED <<dispatcherVars, ws>>

\* socket.once('close', () => emitter.emit('close')) (line 126): the server
\* hung up, or a close the client asked for has completed
SocketClose(s) ==
    /\ ~cl.crashed
    /\ s \in 1..Len(cl.socks)
    /\ cl.socks[s].state \in {"open", "closing"}
    /\ cl' = OnRequestClose([cl EXCEPT !.socks[s].state = "closed"], cl.socks[s].wired)
    /\ UNCHANGED <<dispatcherVars, ws>>

\* socket.once('error', err => { ... }) (lines 127-131)
SocketError(s) ==
    /\ ~cl.crashed
    /\ s \in 1..Len(cl.socks)
    /\ cl.socks[s].state \in {"connecting", "open"}
    /\ ~cl.socks[s].errored
    /\ cl' = OnRequestError([cl EXCEPT !.socks[s].state = "closing",
                                       !.socks[s].errored = TRUE,
                                       !.socket = 0],
                            cl.socks[s].wired)
    /\ UNCHANGED <<dispatcherVars, ws>>

\* disconnect() (lines 204-209)
disconnect ==
    /\ ~cl.crashed
    /\ cl.socket # 0
    /\ cl' = [cl EXCEPT !.socks[cl.socket].state =
                            IF @ \in {"connecting", "open"} THEN "closing" ELSE @,
                        !.socket = 0]
    /\ UNCHANGED <<dispatcherVars, ws>>


RouteKeys == Disps \X (0..MaxRoutes)

Init ==
    /\ routes = [d \in Disps |-> <<>>]
    /\ behav = [key \in RouteKeys |-> {}]
    /\ ctxs = <<>>
    /\ frames = <<>>
    /\ proms = <<>>
    /\ tick = 0
    /\ queue = <<>>
    /\ stack = <<>>
    /\ hs = <<>>
    /\ errs = <<>>
    /\ calls = <<>>
    /\ koa = <<>>
    /\ ws = WsInit
    /\ cl = ClInit

\* the steps of the event loop
Engine ==
    \/ StartDispatch
    \/ RunMicrotasks
    \/ HandlerCallNext
    \/ HandlerReturn
    \/ \E inv \in 1..Len(hs) : LateNext(inv)
    \/ \E inv \in 1..Len(hs) : TimerSettle(inv)

\* one call on a table built by register: D1 is called, D2 is reached through
\* a mount route of D1
Next ==
    \/ \E d \in Disps, path \in RegisterArgs, handler \in Handlers :
          Register(d, path, handler)
    \/ \E path \in Paths : calls = <<>> /\ Call(D1, path, 1)
    \/ Engine

Spec == Init /\ [][Next]_vars

\* the dispatcher behind the Koa middleware
NextHttp ==
    \/ \E d \in Disps, path \in RegisterArgs, handler \in Handlers :
          Register(d, path, handler)
    \/ \E method \in Methods, url \in Paths : HttpRequest(method, url)
    \/ Engine

SpecHttp == Init /\ [][NextHttp]_vars

\* a dispatcher mounted on another one, with two routes of its own, and calls
\* that pass the context of the call before them
MountPatterns  == {S_p, S_a}
NestedPatterns == {S_q, S_a, S_pq, S_ab}
MountPaths     == {S_p, S_q, S_pq}

InitMount ==
    /\ \E mp \in MountPatterns, n1 \in NestedPatterns, n2 \in NestedPatterns :
          routes = [d \in Disps |->
                      IF d = D1 THEN <<Route(mp, DispHandler(D2))>>
                      ELSE <<Route(n1, FnHandler), Route(n2, FnHandler)>>]
    /\ behav = [key \in RouteKeys |-> {}]
    /\ ctxs = <<>>
    /\ frames = <<>>
    /\ proms = <<>>
    /\ tick = 0
    /\ queue = <<>>
    /\ stack = <<>>
    /\ hs = <<>>
    /\ errs = <<>>
    /\ calls = <<>>
    /\ koa = <<>>
    /\ ws = WsInit
    /\ cl = ClInit

\* D1.call(path, {}) and then D2.call(path, ctx) with the context of the first
NextMount ==
    \/ \E path \in MountPaths : calls = <<>> /\ Call(D1, path, 1)
    \/ \E path \in MountPaths : Len(calls) = 1 /\ Call(D2, path, 1)
    \/ Engine

SpecMount == InitMount /\ [][NextMount]_vars

\* the WebSocket adapter on its own: connections, frames, responders, closes
NextWs ==
    \/ WsConnect
    \/ \E c \in 1..MaxConns, message \in WsFrames : WsMessage(c, message)
    \/ \E m \in 1..MaxFrames : WsRespond(m)
    \/ \E c \in 1..MaxConns : WsClose(c)

SpecWs == Init /\ [][NextWs]_vars

\* requests to a service: subscribe, unsubscribe with a sid, call
SvcFrames ==
    {Frame("text", "json", Obj("1.0", "/p", "/p", "a", "subscribe", 0)),
     Frame("text", "json", Obj("1.0", "/p", "/p", "b", "unsubscribe", 1)),
     Frame("text", "json", Obj("1.0", "/p", "/p", "b", "unsubscribe", 2)),
     Frame("text", "json", Obj("1.0", "/p", "/p", "a", "call", 0))}

NextSvc ==
    \/ WsConnect
    \/ \E c \in 1..MaxConns, message \in SvcFrames : WsMessage(c, message)
    \/ \E m \in 1..MaxFrames : WsRespond(m)
    \/ \E c \in 1..MaxConns : WsClose(c)

SpecSvc == Init /\ [][NextSvc]_vars

\* the client on its own: requests, the socket's events, disconnect
NextClient ==
    \/ ClRequest
    \/ \E r \in 1..MaxRequests : ClRequestImmediate(r)
    \/ \E r \in 1..MaxRequests, awaited \in BOOLEAN : ClConnectImmediate(r, awaited)
    \/ \E r \in 1..MaxRequests : ClLocaleResolved(r)
    \/ \E s \in 1..MaxSockets : SocketOpen(s)
    \/ \E s \in 1..MaxSockets, r \in 1..MaxRequests : SocketMessage(s, r)
    \/ \E s \in 1..MaxSockets : SocketClose(s)
    \/ \E s \in 1..MaxSockets : SocketError(s)
    \/ disconnect

SpecClient == Init /\ [][NextClient]_vars

\* ------------------------------------------------------------------------
\* Properties
\* ------------------------------------------------------------------------
PromState(p) == proms[p].state
PromValue(p) == proms[p].value
Settled(p)   == proms[p].state # "pending"

\* the routes of dispatcher d whose matcher accepts path, by the index of the code
MatchingRoutes(d, path) ==
    {i \in 0..(Len(routes[d]) - 1) : StrMatch(path, routes[d][i + 1].regexp).matched}

\* the routes of call frame f whose handler was called: a function that was
\* invoked, or a nested dispatcher that was called
Reached(f) ==
    {hs[k].i : k \in {j \in 1..Len(hs) : hs[j].f = f}}
    \cup {frames[g].via : g \in {j \in 1..Len(frames) : frames[j].parent = f}}

Started(f) == frames[f].index >= 0

\* C1: call invokes the handler of the lowest-index route whose matcher accepts
\* the path and no handler of a route at a lower index; the handlers of one
\* call run in registration order, so of two registrations of one pattern the
\* earlier is invoked first.
FirstMatchWins ==
    /\ \A f \in 1..Len(frames) :
          Started(f) =>
            LET ms == MatchingRoutes(frames[f].disp, frames[f].path)
            IN  /\ Reached(f) \subseteq ms
                /\ ms # {} => \E i \in Reached(f) : \A j \in ms : i <= j
                /\ ms = {} => Reached(f) = {}
    /\ \A k1, k2 \in 1..Len(hs) :
          (k1 < k2 /\ hs[k1].f = hs[k2].f) => hs[k1].i < hs[k2].i

\* a handler ran although an earlier route was tested and rejected, and on a
\* table that holds one pattern twice the earlier registration ran first
FirstMatchWinsWitness ==
    /\ \E k \in 1..Len(hs) :
          /\ hs[k].i = 1
          /\ 0 \notin MatchingRoutes(hs[k].disp, frames[hs[k].f].path)
    \/ \E k \in 1..Len(hs) :
          /\ hs[k].i = 0
          /\ Len(routes[hs[k].disp]) = 2
          /\ routes[hs[k].disp][1].path = routes[hs[k].disp][2].path

\* C2: however often a handler calls next(), the chain advances from its route
\* once: dispatch runs once for it, every route's handler is invoked at most
\* once per call, and a call of next() after the first changes nothing of
\* the walk, the promises or the contexts.
NextOnceInv ==
    /\ \A k \in 1..Len(hs) :
          /\ hs[k].advances <= 1
          /\ hs[k].nextCalls >= 1 => hs[k].advances = 1
          /\ hs[k].fired <=> hs[k].nextCalls >= 1
    /\ \A k1, k2 \in 1..Len(hs) :
          (hs[k1].f = hs[k2].f /\ hs[k1].i = hs[k2].i) => k1 = k2
    /\ \A g1, g2 \in 1..Len(frames) :
          (frames[g1].parent # 0 /\ frames[g1].parent = frames[g2].parent) => g1 = g2

NextRepeatStep ==
    \A k \in 1..Len(hs) :
        (hs[k].nextCalls >= 1 /\ hs'[k].nextCalls > hs[k].nextCalls)
        => /\ ctxs' = ctxs
           /\ frames' = frames
           /\ proms' = proms
           /\ queue' = queue
           /\ errs' = errs
           /\ Len(hs') = Len(hs)

NextAtMostOnce == []NextOnceInv /\ [][NextRepeatStep]_vars

\* a handler has called next() twice, the second time from a timer or before
\* it returned, and the next route's handler has run
NextAtMostOnceWitness ==
    \E k1, k2 \in 1..Len(hs) :
        /\ hs[k1].nextCalls >= 2
        /\ hs[k2].f = hs[k1].f
        /\ hs[k2].i > hs[k1].i

\* the promise Dispatcher.call returned to the caller of the call that
\* handler invocation k belongs to
CallProm(k) == calls[hs[k].call].prom

\* the handler invocations that called next() while they ran and got a
\* promise back: the downstream chain of k is the promise hs[k].down
CalledNext(k) == hs[k].b.nx >= 1 /\ hs[k].down.t = "prom"

\* C3: whenever a handler has called next(), the promise of the call does not
\* settle before the downstream chain started by that next() has settled,
\* whether or not the handler returns the value of next().
SettlesAfterDownstream ==
    \A k \in 1..Len(hs) :
        (CalledNext(k) /\ Settled(CallProm(k)))
        => /\ Settled(hs[k].down.v)
           /\ proms[hs[k].down.v].at < proms[CallProm(k)].at

\* C4: when a handler calls next() and the downstream chain is fulfilled, the
\* call is fulfilled with the value of the downstream chain (which is the
\* context when the downstream handler produced undefined), not with what the
\* upstream handler returned.
DownstreamValueWins ==
    \A k \in 1..Len(hs) :
        (/\ CalledNext(k)
         /\ PromState(hs[k].down.v) = "fulfilled"
         /\ PromState(CallProm(k)) = "fulfilled")
        => PromValue(CallProm(k)) = PromValue(hs[k].down.v)

\* the errors handlers of call c have thrown or have rejected their promise with
HandlerErrors(c) ==
    {errs[e].err : e \in {j \in 1..Len(errs) :
                            errs[j].call = c /\ errs[j].how \in {"thrown", "rejected"}}}

\* C5: an error raised inside a handler while the call is pending, thrown or
\* delivered through the promise the handler returned, at the first route or
\* behind next(), rejects the call with an error a handler raised: the call is
\* never fulfilled after it, and is rejected once nothing is left to run.
HandlerErrorRejectsCall ==
    \A e \in 1..Len(errs) :
        (errs[e].pending /\ errs[e].how \in {"thrown", "rejected"})
        => LET p == calls[errs[e].call].prom
           IN  /\ PromState(p) # "fulfilled"
               /\ Quiescent => /\ PromState(p) = "rejected"
                               /\ PromValue(p) \in HandlerErrors(errs[e].call)

\* C6: when no route of the dispatcher matches the path of a call (the empty
\* table included), the call is rejected with a NOT_FOUND DispatcherError as
\* soon as its walk has run, no handler of the dispatcher was invoked for it,
\* and nothing was written to the response of the call's context.
NotFoundWhenNoMatch ==
    \A c \in 1..Len(calls) :
        LET f == calls[c].frame
        IN  (MatchingRoutes(calls[c].disp, calls[c].path) = {} /\ Started(f))
            => /\ PromState(calls[c].prom) = "rejected"
               /\ PromValue(calls[c].prom) = DispatcherError(NOT_FOUND)
               /\ \A k \in 1..Len(hs) : hs[k].call # c
               /\ \A g \in 1..Len(frames) : frames[g].parent # f
               /\ ~calls[c].reused => ctxs[calls[c].ctx].response = <<>>

\* a call on a table that holds routes, none of which matches, was rejected
NotFoundWhenNoMatchWitness ==
    \E c \in 1..Len(calls) :
        /\ routes[calls[c].disp] # <<>>
        /\ MatchingRoutes(calls[c].disp, calls[c].path) = {}
        /\ PromState(calls[c].prom) = "rejected"

\* the named captures of a pattern on a path it matches, read off the two
\* texts segment by segment: absent when the pattern has no ":name" segment
ExpectedParams(pattern, path) ==
    LET ps == Segments(pattern)
        ss == Segments(path)
        named == {k \in 1..Len(ps) : Len(ps[k]) >= 2 /\ ps[k][1] = ":"}
    IN  IF named = {} THEN [present |-> FALSE, map |-> {}]
        ELSE [present |-> TRUE,
              map |-> {<<SubSeq(ps[k], 2, Len(ps[k])), ss[k]>> : k \in named}]

\* C7: at the moment a handler is invoked, ctx.params holds exactly the named
\* captures of the route being invoked: nothing survives from a route matched
\* earlier (a middleware route that called next(), the mount route of the
\* parent dispatcher, the params a reused context came with), and params is
\* absent when the route has no captures.
ParamsOfInvokedRoute ==
    \A k \in 1..Len(hs) :
        hs[k].params = ExpectedParams(routes[hs[k].disp][hs[k].i + 1].path, hs[k].path)

\* behind a mount route with a capture, a handler of a route with a capture
\* ran, called next(), and the handler of a route without captures ran next
ParamsOfInvokedRouteWitness ==
    \E k1, k2 \in 1..Len(hs) :
        /\ k1 < k2
        /\ hs[k1].f = hs[k2].f
        /\ frames[hs[k1].f].parent # 0
        /\ routes[D1][frames[hs[k1].f].via + 1].keys # <<>>
        /\ hs[k1].params.present
        /\ ~hs[k2].params.present

\* the handlers invoked during call c, in order: the dispatcher and route, the
\* context handed to the handler and the path it carried
HandlerTrace(c) ==
    LET idx == SelectSeq([k \in 1..Len(hs) |-> k], LAMBDA k : hs[k].call = c)
    IN  [j \in 1..Len(idx) |->
            <<hs[idx[j]].disp, hs[idx[j]].i, hs[idx[j]].ctx, hs[idx[j]].path>>]

Outcome(c) == <<PromState(calls[c].prom), PromValue(calls[c].prom)>>

\* D1.call(prefix + tail, {}) was followed by D2.call(tail, ctx), D2 being
\* mounted on D1 at a literal prefix, and the timers of the two calls fired in
\* the same order
MountedAndDirect ==
    /\ Len(calls) = 2
    /\ Quiescent
    /\ routes[D1][1].keys = <<>>
    /\ calls[2].path # <<>>
    /\ calls[1].path = routes[D1][1].prefix \o calls[2].path
    /\ calls[1].sched = calls[2].sched

\* C8: with D2 mounted at a literal prefix on D1, D1.call(prefix + tail, ctx)
\* and D2.call(tail, ctx) invoke the same handlers of D2 in the same order with
\* the same context, whose path is the tail, and settle alike: the same value
\* or the same error.
MountEquivalence ==
    MountedAndDirect
    => /\ HandlerTrace(1) = HandlerTrace(2)
       /\ \A j \in 1..Len(HandlerTrace(1)) :
             /\ HandlerTrace(1)[j][1] = D2
             /\ HandlerTrace(1)[j][3] = calls[1].ctx
             /\ HandlerTrace(1)[j][4] = calls[2].path
       /\ Outcome(1) = Outcome(2)
       /\ Settled(calls[1].prom)

\* both calls ran two handlers of D2 and were settled
MountEquivalenceWitness ==
    /\ MountedAndDirect
    /\ Len(HandlerTrace(1)) = 2
    /\ Len(HandlerTrace(2)) = 2

\* the dispatch of request r was rejected with the DispatcherError NOT_FOUND
RejectedNotFound(r) ==
    LET p == calls[koa[r].call].prom
    IN  /\ PromState(p) = "rejected"
        /\ PromValue(p).t = "DispatcherError"
        /\ PromValue(p).v = NOT_FOUND

\* C9: in the Koa middleware, a dispatch rejected with the DispatcherError
\* NOT_FOUND makes the middleware call the upstream next exactly once and set
\* neither status nor body; after any other outcome of a request that is not
\* HEAD (a result, any other error) next is not called.
NotFoundFallsThrough ==
    \A r \in 1..Len(koa) :
        koa[r].method # "HEAD"
        => /\ koa[r].nextCalls <= 1
           /\ koa[r].nextCalls = 1
              => (RejectedNotFound(r) /\ koa[r].status = Undef /\ koa[r].body = NoBody)
           /\ (Idle /\ RejectedNotFound(r)) => koa[r].nextCalls = 1
           /\ (Idle /\ Settled(calls[koa[r].call].prom)) => Settled(koa[r].ret)

\* a GET request found no route on a table that holds one, and next was called
NotFoundFallsThroughWitness ==
    \E r \in 1..Len(koa) :
        /\ koa[r].method = "GET"
        /\ routes[D1] # <<>>
        /\ koa[r].nextCalls = 1
        /\ PromState(koa[r].ret) = "fulfilled"

\* C10: in the Koa middleware, a dispatch rejected with an error other than
\* NOT_FOUND sets the status to the error's status when the error is a
\* DispatcherError and to SERVER_ERROR for any other error, sets the body to
\* the error converted to a string, and the promise of the middleware is
\* fulfilled, not rejected.
ErrorSetsStatusAndBody ==
    \A r \in 1..Len(koa) :
        koa[r].method # "HEAD"
        => LET p == calls[koa[r].call].prom
               e == PromValue(p)
           IN  (Idle /\ PromState(p) = "rejected" /\ ~RejectedNotFound(r))
               => /\ koa[r].status = IF e.t = "DispatcherError" THEN Val(e.v)
                                     ELSE Val(SERVER_ERROR)
                  /\ koa[r].body = [kind |-> "string", c |-> 0, e |-> e]
                  /\ PromState(koa[r].ret) = "fulfilled"
                  /\ koa[r].nextCalls = 0

\* a handler threw a plain Error that carries the status 404: the response
\* has status 500
ErrorSetsStatusAndBodyWitness ==
    \E r \in 1..Len(koa) :
        /\ koa[r].method = "GET"
        /\ PromState(calls[koa[r].call].prom) = "rejected"
        /\ PromValue(calls[koa[r].call].prom) = PlainError(NOT_FOUND)
        /\ koa[r].status = Val(SERVER_ERROR)
        /\ PromState(koa[r].ret) = "fulfilled"

\* C11: in the Koa middleware, when the dispatch of a request that is not HEAD
\* is fulfilled, the HTTP status is the status of the dispatch context and the
\* HTTP body is the response of the dispatch context, whatever the handler
\* returned: undefined, the context, or any other value.
SuccessCopiesContext ==
    \A r \in 1..Len(koa) :
        koa[r].method # "HEAD"
        => LET c == calls[koa[r].call]
           IN  (Idle /\ PromState(c.prom) = "fulfilled")
               => /\ koa[r].status = Val(ctxs[c.ctx].status)
                  /\ koa[r].body = [kind |-> "response", c |-> c.ctx, e |-> Undef]

\* the pattern argument is neither a string nor an object with path and
\* handler, or is an array that holds such an element
InvalidPattern(path) ==
    \/ path.kind = "bad"
    \/ path.kind = "arr" /\ \E k \in 1..Len(path.elems) : path.elems[k].kind = "bad"

\* the handler argument is used (the pattern brings none of its own) and is
\* neither a function nor a Dispatcher
InvalidHandler(path, handler) ==
    /\ handler.kind = "bad"
    /\ \/ path.kind = "str"
       \/ path.kind = "arr" /\ \E k \in 1..Len(path.elems) : path.elems[k].kind = "str"

\* C12: a register call with an invalid pattern or an invalid handler leaves
\* the route table of the dispatcher exactly as it was, also when the pattern
\* is an array of which only some elements are invalid.
FailedRegisterKeepsTable ==
    [][\A d \in Disps, path \in RegisterArgs, handler \in Handlers :
          (Register(d, path, handler) /\ (InvalidPattern(path) \/ InvalidHandler(path, handler)))
          => routes' = routes]_vars

\* a valid Request: the frame decodes, a text frame as JSON and a binary
\* frame as MessagePack, to an object carrying version, path and id
ValidRequest(message) ==
    /\ \/ message.enc = "text" /\ message.fmt = "json"
       \/ message.enc = "binary" /\ message.fmt = "msgpack"
    /\ message.val.k = "obj"
    /\ message.val.version # ""
    /\ message.val.path # ""
    /\ message.val.id # ""

\* C13: a dispatch is emitted for an inbound frame exactly when the frame
\* decodes to a valid Request, and then once; any other frame causes no
\* dispatch and no outbound frame.
DispatchIffValidRequest ==
    \A m \in 1..Len(ws.msgs) :
        /\ ws.msgs[m].emitted = (IF ValidRequest(ws.msgs[m].frame) THEN 1 ELSE 0)
        /\ ~ValidRequest(ws.msgs[m].frame)
           => \A k \in 1..Len(ws.sent) : ws.sent[k].by # m

FramesOf(m) == {k \in 1..Len(ws.sent) : ws.sent[k].by = m}

\* C14: for each request received on a connection at most one outbound frame
\* is sent, however often and in whatever interleaving with other requests
\* its responder is invoked, and every outbound frame carries the id of the
\* request whose responder produced it, on the connection of that request.
OneFramePerRequest ==
    /\ \A m \in 1..Len(ws.msgs) : Cardinality(FramesOf(m)) <= 1
    /\ \A k \in 1..Len(ws.sent) :
           /\ ws.sent[k].id = ws.msgs[ws.sent[k].by].frame.val.id
           /\ ws.sent[k].conn = ws.msgs[ws.sent[k].by].conn

\* two requests with different ids on one connection, each responder invoked
\* twice, answered in the reverse order of their arrival
OneFramePerRequestWitness ==
    /\ Len(ws.msgs) = 2
    /\ ws.msgs[1].conn = ws.msgs[2].conn
    /\ ws.msgs[1].frame.val.id # ws.msgs[2].frame.val.id
    /\ ws.msgs[1].responds = 2
    /\ ws.msgs[2].responds = 2
    /\ Len(ws.sent) = 2
    /\ ws.sent[1].by = 2
    /\ ws.sent[2].by = 1

\* C15: no outbound frame is sent on a connection after it closed, for any
\* request received on it before the close: a responder invoked after the
\* close event sends nothing.
NoFrameAfterClose ==
    \A k \in 1..Len(ws.sent) : ws.sent[k].open

\* a dispatched request whose connection closed before its responder was
\* invoked: the responder ran and no frame was sent
NoFrameAfterCloseWitness ==
    \E m \in 1..Len(ws.msgs) :
        /\ ws.msgs[m].emitted = 1
        /\ ~ws.conns[ws.msgs[m].conn].open
        /\ ws.msgs[m].responds >= 1
        /\ FramesOf(m) = {}

\* C16: every response frame uses the encoding of the request frame it
\* answers: text for a text request, binary for a binary request.
ResponseEncodingMatches ==
    \A k \in 1..Len(ws.sent) : ws.sent[k].enc = ws.msgs[ws.sent[k].by].frame.enc

\* C17: for every subscription onSubscribe ran exactly once and
\* onUnsubscribe at most once, and once the connection of the subscription
\* has closed onUnsubscribe has run for it: a client that disconnects with N
\* active subscriptions causes N onUnsubscribe invocations.
HooksOncePerSubscription ==
    \A s \in 1..Len(ws.subs) :
        /\ ws.subs[s].subscribed = 1
        /\ ws.subs[s].unsubscribed <= 1
        /\ ~ws.conns[ws.subs[s].conn].open => ws.subs[s].unsubscribed = 1

\* C18: on every descent into a nested dispatcher the prefix stored with the
\* route is a leading substring of the path of the request, and the path the
\* nested dispatcher is called with is that path with the prefix removed.
PrefixStripped ==
    \A g \in 1..Len(frames) :
        frames[g].parent # 0
        => LET f      == frames[g].parent
               path   == frames[f].path
               prefix == routes[frames[f].disp][frames[g].via + 1].prefix
           IN  /\ Len(prefix) <= Len(path)
               /\ SubSeq(path, 1, Len(prefix)) = prefix
               /\ frames[g].path = SubSeq(path, Len(prefix) + 1, Len(path))

\* the call frames of nested dispatchers in which no route matches the path
\* they were called with, once their walk has run
NestedWithoutMatch ==
    {g \in 1..Len(frames) :
        /\ frames[g].parent # 0
        /\ Started(g)
        /\ MatchingRoutes(frames[g].disp, frames[g].path) = {}}

\* the handlers of the parent of nested frame g that ran before the descent
HandlersBefore(g) == {k \in 1..Len(hs) : hs[k].f = frames[g].parent}

\* the promise of the step of the parent's walk that descended into g: the
\* promise of the parent's call when the walk came to the route from the
\* start, and the promise next() returned to the last handler before it
\* otherwise
WalkStep(g) ==
    IF HandlersBefore(g) = {} THEN frames[frames[g].parent].prom
    ELSE LET k == CHOOSE j \in HandlersBefore(g) :
                      \A l \in HandlersBefore(g) : hs[l].i <= hs[j].i
         IN  hs[k].down.v

ClosedConnectionLeavesNoEntry ==
    \A r \in cl.requests :
        cl.reqs[r].sock # 0
        => LET socket == cl.socks[cl.reqs[r].sock]
           IN  socket.state # "closed" /\ ~socket.errored

\* C21: the client calls send with a request only on a socket that has
\* emitted open and is still open: never on a socket that is connecting,
\* closing or closed, and never without a socket.
SendsOnlyOnOpenSocket ==
    \A r \in 1..Len(cl.reqs) : cl.reqs[r].sendOn \in {"", "open"}
====
